---- MODULE Spec2Model ----
(***************************************************************************)
(* nettop-notch (src/cli.py): the sampling-to-rate pipeline (run_csv,      *)
(* parse_snapshot, summarize_ifaces, build_rows) as operators, and main    *)
(* with its two render loops (ui_loop, non_ui_loop) as a state machine.    *)
(*                                                                         *)
(* Representation.  A Python dict is a sequence of entries in insertion    *)
(* order.  Byte counters are integers.  time.monotonic() is an integer     *)
(* number of clock units of UnitMs milliseconds.  A rate (bytes / elapsed  *)
(* time) is the exact fraction [num, den]: num in bytes, den in            *)
(* microseconds; fractions are compared by cross-multiplication.           *)
(***************************************************************************)
EXTENDS Integers, Sequences, FiniteSets, TLC

\* ------------------------------------------------------------------ bounds
\* Largest cumulative byte counter in the inputs of build_rows.
MaxCtr == 2
\* Largest cumulative byte counter the snapshot source reports to the loops.
LoopCtr == 1
\* The horizon of a run, in clock units: the largest value of the monotonic
\* clock and of the loop's schedule (next_target).
MaxTime == 4
\* Longest list of pass-through arguments handed to build_nettop_cmd.
MaxArgs == 2
\* Longest body (rows after the header) handed to parse_snapshot alone.
MaxLines == 3
\* Longest connection list of a process handed to build_rows.
MaxConns == 3

\* ------------------------------------------------------- program constants
\* One clock unit of the model, in milliseconds: the floor of the keystroke
\* wait, max(10, ...), is exactly one unit.
UnitMs == 10
\* Microseconds per clock unit.
UsPerUnit == UnitMs * 1000
\* The floor of the elapsed time, 1e-6 s, in microseconds.
EpsUs == 1

Max(a, b) == IF a >= b THEN a ELSE b

Abs(a) == IF a >= 0 THEN a ELSE 0 - a

\* ------------------------------------------------------------- fractions
Rat(n, d) == [num |-> n, den |-> d]

RatAdd(a, b) ==
    IF a.den = b.den THEN Rat(a.num + b.num, a.den)
    ELSE Rat(a.num * b.den + b.num * a.den, a.den * b.den)

RatSub(a, b) ==
    IF a.den = b.den THEN Rat(a.num - b.num, a.den)
    ELSE Rat(a.num * b.den - b.num * a.den, a.den * b.den)

RatAbs(a) == Rat(Abs(a.num), Abs(a.den))

RatEq(a, b) == a.num * b.den = b.num * a.den

\* a <= b, for positive denominators
RatLE(a, b) == a.num * b.den <= b.num * a.den

RatNonNeg(a) == a.num * a.den >= 0

\* ------------------------------------------------------ dicts as sequences
HasKey(d, p) == \E i \in DOMAIN d : d[i].proc = p

Lookup(d, p) == d[CHOOSE i \in DOMAIN d : d[i].proc = p]

Keys(d) == {d[i].proc : i \in DOMAIN d}

\* d[p] = e: a new key is appended, an old one keeps its place
DictSet(d, e) ==
    IF HasKey(d, e.proc)
    THEN [i \in DOMAIN d |-> IF d[i].proc = e.proc THEN e ELSE d[i]]
    ELSE Append(d, e)

\* --------------------------------------------------- interface prioritizer
\* The interface names of the model, in ascending string order.
IfaceOrder == <<"-", "awdl0", "en0", "en1", "lo0", "utun0", "vmnet1">>

IfaceNames == {IfaceOrder[i] : i \in DOMAIN IfaceOrder}

NameRank(i) == CHOOSE k \in DOMAIN IfaceOrder : IfaceOrder[k] = i

placeholder == {"-"}

loopbacks == {"lo", "lo0"}

\* i.lower().startswith(prefix), over the names of the model
StartsWith(i, prefix) ==
    CASE prefix = "en" -> i \in {"en0", "en1"}
      [] prefix = "pdp_ip" -> FALSE
      [] prefix = "utun" -> i \in {"utun0"}
      [] prefix = "awdl" -> i \in {"awdl0"}
      [] OTHER -> FALSE

score(i) ==
    IF i \in placeholder THEN 0 - 100
    ELSE IF StartsWith(i, "en") THEN 100
    ELSE IF StartsWith(i, "pdp_ip") THEN 90
    ELSE IF StartsWith(i, "utun") THEN 80
    ELSE IF StartsWith(i, "awdl") THEN 40
    ELSE IF i \in loopbacks THEN 0 - 10
    ELSE 50

\* c.get("iface") or "-"
IfaceOf(c) == IF c.iface = "" THEN "-" ELSE c.iface

\* the distinct interfaces of conns, in first-seen order
RECURSIVE UniqIfaces(_, _)
UniqIfaces(conns, seen) ==
    IF conns = <<>> THEN seen
    ELSE LET i == IfaceOf(Head(conns))
         IN UniqIfaces(Tail(conns),
                       IF \E k \in DOMAIN seen : seen[k] = i THEN seen
                       ELSE Append(seen, i))

\* the score left out of the key
KeyLessByName(a, b) == NameRank(a) < NameRank(b)

\* (score(a), a) < (score(b), b)
KeyLess(a, b) ==
    \/ score(a) < score(b)
    \/ score(a) = score(b) /\ NameRank(a) < NameRank(b)

\* max(candidates, key=lambda i: (score(i), i)): the first maximal element
MaxByKey(candidates) ==
    LET best == {k \in DOMAIN candidates :
                    \A j \in DOMAIN candidates : ~KeyLess(candidates[k], candidates[j])}
    IN candidates[CHOOSE k \in best : \A j \in best : k <= j]

summarize_ifaces(conns) ==
    IF conns = <<>> THEN [primary |-> "-", extra |-> 0, state |-> "-"]
    ELSE
    LET uniq == UniqIfaces(conns, <<>>)
        real_ifaces == SelectSeq(uniq, LAMBDA i : i \notin placeholder)
        externals == SelectSeq(real_ifaces, LAMBDA i : i \notin loopbacks)
        candidates == IF externals # <<>> THEN externals
                      ELSE IF real_ifaces # <<>> THEN real_ifaces
                      ELSE <<"-">>
        primary == MaxByKey(candidates)
        extra_real == IF real_ifaces # <<>>
                      THEN Cardinality({real_ifaces[k] : k \in DOMAIN real_ifaces}) - 1
                      ELSE 0
        hits == {k \in DOMAIN conns : IfaceOf(conns[k]) = primary}
        state == IF hits # {}
                 THEN conns[CHOOSE k \in hits : \A j \in hits : k <= j].state
                 ELSE conns[1].state
    IN [primary |-> primary, extra |-> Max(0, extra_real), state |-> state]

\* ------------------------------------------------------------ rate engine
\* if dt_seconds <= 0: dt_seconds = 1e-6   (dt in microseconds)
DtFloor(dt) == IF dt <= 0 THEN EpsUs ELSE dt

\* the clamp left out
DeltaUnclamped(now, prev) == now - prev

\* max(0, now - prev): the counter-reset clamp
Delta(now, prev) == Max(0, now - prev)

\* every process gets an entry
HasTrafficAlways(din, dout) == TRUE

\* if din or dout
HasTraffic(din, dout) == din # 0 \/ dout # 0

\* the sum taken as the larger of the two
RsumMax(rin, rout) == IF RatLE(rin, rout) THEN rout ELSE rin

\* rsum = rin + rout
Rsum(rin, rout) == RatAdd(rin, rout)

\* rdelta = abs(rin - rout)
Rdelta(rin, rout) == RatAbs(RatSub(rin, rout))

\* a new process taken to have had counters 0
PrevOfZero(prev_totals, e) ==
    IF HasKey(prev_totals, e.proc) THEN Lookup(prev_totals, e.proc)
    ELSE [proc |-> e.proc, bin |-> 0, bout |-> 0]

\* prev_totals.get(proc, (bin_now, bout_now))
PrevOf(prev_totals, e) ==
    IF HasKey(prev_totals, e.proc) THEN Lookup(prev_totals, e.proc) ELSE e

\* one iteration of the loop over curr_totals.items()
RateOf(prev_totals, e, dt) ==
    LET prev == PrevOf(prev_totals, e)
        din == Delta(e.bin, prev.bin)
        dout == Delta(e.bout, prev.bout)
        rin == Rat(din, dt)
        rout == Rat(dout, dt)
    IN [proc |-> e.proc, din |-> din, dout |-> dout,
        rin |-> rin, rout |-> rout,
        rsum |-> Rsum(rin, rout), rdelta |-> Rdelta(rin, rout)]

\* proc_rate: the entries of the processes with traffic, in curr_totals order
ProcRate(prev_totals, curr_totals, dt) ==
    LET all == [i \in DOMAIN curr_totals |-> RateOf(prev_totals, curr_totals[i], dt)]
        kept == SelectSeq(all, LAMBDA r : HasTraffic(r.din, r.dout))
    IN [i \in DOMAIN kept |->
          [proc |-> kept[i].proc, rin |-> kept[i].rin, rout |-> kept[i].rout,
           rsum |-> kept[i].rsum, rdelta |-> kept[i].rdelta]]

\* ------------------------------------------------------------- row builder
\* the (process, connection) pairs of the remote-mode loops, in iteration
\* order: curr_conns.items(), skipping processes without a rate entry
\* the pairs when a process without connections is given one empty record
RECURSIVE ConnPairsEmptyToo(_, _)
ConnPairsEmptyToo(curr_conns, proc_rate) ==
    IF curr_conns = <<>> THEN <<>>
    ELSE LET h == Head(curr_conns)
             own == IF ~HasKey(proc_rate, h.proc) THEN <<>>
                    ELSE IF h.conns = <<>>
                    THEN <<[proc |-> h.proc,
                            c |-> [iface |-> "", state |-> "", local |-> "", remote |-> ""]]>>
                    ELSE [k \in DOMAIN h.conns |-> [proc |-> h.proc, c |-> h.conns[k]]]
         IN own \o ConnPairsEmptyToo(Tail(curr_conns), proc_rate)

RECURSIVE ConnPairs(_, _)
ConnPairs(curr_conns, proc_rate) ==
    IF curr_conns = <<>> THEN <<>>
    ELSE LET h == Head(curr_conns)
             own == IF HasKey(proc_rate, h.proc)
                    THEN [k \in DOMAIN h.conns |-> [proc |-> h.proc, c |-> h.conns[k]]]
                    ELSE <<>>
         IN own \o ConnPairs(Tail(curr_conns), proc_rate)

GroupKey(proc, c) == <<proc, c.iface, c.state, c.remote>>

\* the row of a new key without its first local endpoint
GroupRowNoLocal(pr, c) ==
    [proc |-> pr.proc, iface |-> c.iface, state |-> c.state, remote |-> c.remote,
     locals |-> <<>>,
     rin |-> pr.rin, rout |-> pr.rout, rsum |-> pr.rsum, rdelta |-> pr.rdelta]

\* the row a new group key creates
GroupRow(pr, c) ==
    [proc |-> pr.proc, iface |-> c.iface, state |-> c.state, remote |-> c.remote,
     locals |-> <<c.local>>,
     rin |-> pr.rin, rout |-> pr.rout, rsum |-> pr.rsum, rdelta |-> pr.rdelta]

RowKey(row) == <<row.proc, row.iface, row.state, row.remote>>

\* grouped.get(key): a new row, or the local endpoint appended to the old one
RECURSIVE Grouped(_, _, _)
Grouped(pairs, proc_rate, grouped) ==
    IF pairs = <<>> THEN grouped
    ELSE LET p == Head(pairs)
             key == GroupKey(p.proc, p.c)
             old == {k \in DOMAIN grouped : RowKey(grouped[k]) = key}
             next == IF old = {}
                     THEN Append(grouped, GroupRow(Lookup(proc_rate, p.proc), p.c))
                     ELSE [k \in DOMAIN grouped |->
                             IF k \in old
                             THEN [grouped[k] EXCEPT !.locals = Append(@, p.c.local)]
                             ELSE grouped[k]]
         IN Grouped(Tail(pairs), proc_rate, next)

\* curr_conns.get(proc, [])
ConnsOf(curr_conns, proc) ==
    IF HasKey(curr_conns, proc) THEN Lookup(curr_conns, proc).conns ELSE <<>>

\* the process-mode row of one rate entry.  The strings built with f-strings
\* are kept as their parts: conn = first_remote + extra, iface = primary (+n).
ProcessRow(pr, curr_conns) ==
    LET conns == ConnsOf(curr_conns, pr.proc)
        withRemote == SelectSeq(conns, LAMBDA c : c.remote # "")
        remotes == [k \in DOMAIN withRemote |-> withRemote[k].remote]
        sockets == Len(conns)
        distinct_remotes == Cardinality({remotes[k] : k \in DOMAIN remotes})
        first_remote == IF remotes # <<>> THEN remotes[1] ELSE "(no remote)"
        annotated == distinct_remotes > 1 \/ sockets > 1
        s == summarize_ifaces(conns)
    IN [proc |-> pr.proc,
        iface |-> [primary |-> s.primary, extra |-> IF s.extra <= 0 THEN 0 ELSE s.extra],
        state |-> s.state,
        conn |-> [first_remote |-> first_remote, annotated |-> annotated,
                  remotes |-> IF annotated THEN Max(0, distinct_remotes - 1) ELSE 0,
                  sockets |-> IF annotated THEN Max(0, sockets - 1) ELSE 0],
        rin |-> pr.rin, rout |-> pr.rout, rsum |-> pr.rsum, rdelta |-> pr.rdelta]

build_rows(group, prev_totals, curr_totals, curr_conns, dt_us) ==
    LET dt == DtFloor(dt_us)
        proc_rate == ProcRate(prev_totals, curr_totals, dt)
    IN IF group = "remote"
       THEN Grouped(ConnPairs(curr_conns, proc_rate), proc_rate, <<>>)
       ELSE [i \in DOMAIN proc_rate |-> ProcessRow(proc_rate[i], curr_conns)]

\* ----------------------------------------------------------------- ranking
\* the field the sort key names
SortField(sort_key, row) ==
    IF sort_key = "in" THEN row.rin
    ELSE IF sort_key = "out" THEN row.rout
    ELSE row.rdelta

\* list.sort(key=..., reverse=True) is stable: a row goes after the rows
\* whose key is greater than or equal to its own
RECURSIVE InsertDesc(_, _, _)
InsertDesc(sorted, row, sort_key) ==
    IF sorted = <<>> THEN <<row>>
    ELSE IF RatLE(SortField(sort_key, row), SortField(sort_key, Head(sorted)))
         THEN <<Head(sorted)>> \o InsertDesc(Tail(sorted), row, sort_key)
         ELSE <<row>> \o sorted

RECURSIVE SortRows(_, _)
SortRows(rows, sort_key) ==
    IF rows = <<>> THEN <<>>
    ELSE InsertDesc(SortRows(SubSeq(rows, 1, Len(rows) - 1), sort_key),
                    rows[Len(rows)], sort_key)

\* ---------------------------------------------------------------- drawing
\* args.threshold is a fraction <<n, d>> of KB/s, d > 0.
\* metric_val > args.threshold * 1024.0, the rate in bytes per microsecond:
\* num / den * 10^6 > n / d * 1024, both sides divided by 64
Exceeds(rate, threshold) ==
    rate.num * 15625 * threshold[2] > threshold[1] * 16 * rate.den

\* metric_val = e["rdelta"] if display_metric == "delta" else e["rsum"]
MetricVal(display_metric, row) ==
    IF display_metric = "delta" THEN row.rdelta ELSE row.rsum

\* emphasis whatever the threshold
UseHiliteNoGuard(threshold, metric_val) == Exceeds(metric_val, threshold)

\* thr_bytes > 0 and metric_val > thr_bytes
use_hilite(threshold, metric_val) ==
    threshold[1] > 0 /\ Exceeds(metric_val, threshold)

\* the loop over rows of draw and of non_ui_loop: the first args.top rows
\* are drawn (the screen is taken to be tall enough); of each drawn row,
\* whether it is emphasised
Draw(rows, display_metric, threshold, top) ==
    LET shown == IF top >= Len(rows) THEN Len(rows) ELSE Max(0, top)
    IN [i \in 1..shown |-> use_hilite(threshold, MetricVal(display_metric, rows[i]))]

\* -------------------------------------------------------- command builder
\* A string is the sequence of its characters.
Lower(ch) ==
    CASE ch = "L" -> "l"
      [] ch = "N" -> "n"
      [] ch = "X" -> "x"
      [] OTHER -> ch

\* str.lower()
LowerStr(str) == [i \in DOMAIN str |-> Lower(str[i])]

\* " ".join(words)
RECURSIVE Join(_)
Join(words) ==
    IF words = <<>> THEN <<>>
    ELSE IF Len(words) = 1 THEN words[1]
    ELSE words[1] \o <<" ">> \o Join(Tail(words))

\* str.split(): the words between runs of blanks; cur is the word being read
RECURSIVE Split(_, _)
Split(str, cur) ==
    IF str = <<>> THEN (IF cur = <<>> THEN <<>> ELSE <<cur>>)
    ELSE IF Head(str) = " "
         THEN (IF cur = <<>> THEN <<>> ELSE <<cur>>) \o Split(Tail(str), <<>>)
         ELSE Split(Tail(str), Append(cur, Head(str)))

\* sub in str
Contains(str, sub) ==
    \E i \in 0..(Len(str) - Len(sub)) : SubSeq(str, i + 1, i + Len(sub)) = sub

\* word in words
HasWord(words, word) == \E i \in DOMAIN words : words[i] = word

build_nettop_cmd(nettop_args) ==
    LET cmd0 == <<<<"n", "e", "t", "t", "o", "p">>>> \o nettop_args
        flat == LowerStr(Join(cmd0))
        cmd1 == IF ~HasWord(Split(flat, <<>>), <<"-", "n">>)
                THEN Append(cmd0, <<"-", "n">>) ELSE cmd0
        cmd2 == IF ~HasWord(Split(flat, <<>>), <<"-", "x">>)
                THEN Append(cmd1, <<"-", "x">>) ELSE cmd1
    IN IF ~Contains(flat, <<"-", "l">>) /\ ~Contains(flat, <<"-", "L">>)
       THEN cmd2 \o <<<<"-", "L">>, <<"1">>>>
       ELSE cmd2

\* --------------------------------------------------------- snapshot source
(***************************************************************************)
(* What subprocess.check_output did: it raised (Failed: a non-zero exit, a *)
(* missing executable, a decode error) or it returned text (Output).  The  *)
(* text is kept as csv.reader leaves it: a sequence of rows, a row a       *)
(* sequence of cells.  A cell is a tuple:                                  *)
(*   Txt(s)  a stripped string (a column name, an interface, a state, a    *)
(*           process name, "" for an empty cell, anything int() refuses),  *)
(*   Num(n)  the decimal text of the integer n,                            *)
(*   Conn(sep, proto, local, remote)  the identifying cell of a socket     *)
(*           line: sep says it holds "<->", proto that it starts with tcp  *)
(*           or udp; local and remote are its two stripped parts.          *)
(***************************************************************************)
Txt(str) == <<"txt", str>>

Num(n) == <<"num", n>>

Conn(sep, proto, local, remote) == <<"conn", sep, proto, local, remote>>

CellKind(cell) == cell[1]

\* err: "exit" (CalledProcessError) or "other" (any other Exception)
Failed(err) == <<"failed", err>>

Output(lines) == <<"output", lines>>

Succeeded(result) == result[1] = "output"

\* bool(cell): a non-empty string
Truthy(cell) == cell # Txt("")

\* only the first except clause: CalledProcessError is taken, any other
\* exception leaves run_csv
RunCsvExitOnly(result) ==
    IF ~Succeeded(result) /\ result[2] = "exit"
    THEN [raised |-> FALSE, header |-> <<>>, body |-> <<>>]
    ELSE IF ~Succeeded(result) THEN [raised |-> TRUE, header |-> <<>>, body |-> <<>>]
    ELSE IF result[2] = <<>> THEN [raised |-> FALSE, header |-> <<>>, body |-> <<>>]
    ELSE [raised |-> FALSE, header |-> result[2][1], body |-> Tail(result[2])]

\* raised: an exception leaves run_csv (both except clauses return [], [])
run_csv(result) ==
    IF ~Succeeded(result) /\ result[2] = "exit"
    THEN [raised |-> FALSE, header |-> <<>>, body |-> <<>>]
    ELSE IF ~Succeeded(result) THEN [raised |-> FALSE, header |-> <<>>, body |-> <<>>]
    ELSE IF result[2] = <<>> THEN [raised |-> FALSE, header |-> <<>>, body |-> <<>>]
    ELSE LET h == result[2][1]
             header == IF Len(h) > 1 /\ h[2] \in {Txt(""), Txt("process")}
                       THEN [h EXCEPT ![2] = Txt("process")]
                       ELSE h
         IN [raised |-> FALSE, header |-> header, body |-> Tail(result[2])]

\* idx.get(name): the 0-based column of the last header cell of that name,
\* -1 for None
ColOf(header, name) ==
    LET at == {i \in DOMAIN header : header[i] = Txt(name)}
    IN IF at = {} THEN 0 - 1 ELSE (CHOOSE i \in at : \A j \in at : j <= i) - 1

\* r[col].strip() if col is not None and col < len(r) else ""
TextAt(r, col) ==
    IF col >= 0 /\ col < Len(r) /\ CellKind(r[col + 1]) = "txt" THEN r[col + 1][2]
    ELSE ""

\* a missing column taken as a failed conversion
IntAtStrict(r, col) ==
    IF col < 0 THEN [raise |-> TRUE, v |-> 0]
    ELSE IF col >= Len(r) THEN [raise |-> TRUE, v |-> 0]
    ELSE IF ~Truthy(r[col + 1]) THEN [raise |-> FALSE, v |-> 0]
    ELSE IF CellKind(r[col + 1]) = "num" THEN [raise |-> FALSE, v |-> r[col + 1][2]]
    ELSE [raise |-> TRUE, v |-> 0]

\* int(r[col]) if col is not None and r[col] else 0;  "raise" when r[col] is
\* out of range or int() refuses the text
IntAt(r, col) ==
    IF col < 0 THEN [raise |-> FALSE, v |-> 0]
    ELSE IF col >= Len(r) THEN [raise |-> TRUE, v |-> 0]
    ELSE IF ~Truthy(r[col + 1]) THEN [raise |-> FALSE, v |-> 0]
    ELSE IF CellKind(r[col + 1]) = "num" THEN [raise |-> FALSE, v |-> r[col + 1][2]]
    ELSE [raise |-> TRUE, v |-> 0]

\* the try block of the process row: the first conversion that raises sends
\* both counters to 0
ParseCounters(r, col_in, col_out) ==
    LET i == IntAt(r, col_in)
        o == IntAt(r, col_out)
    IN IF i.raise \/ o.raise THEN [bin |-> 0, bout |-> 0]
       ELSE [bin |-> i.v, bout |-> o.v]

\* the connection put at the head of the list
AddConnFront(proc_conns, proc, c) ==
    IF HasKey(proc_conns, proc)
    THEN [i \in DOMAIN proc_conns |->
            IF proc_conns[i].proc = proc
            THEN [proc_conns[i] EXCEPT !.conns = <<c>> \o @]
            ELSE proc_conns[i]]
    ELSE Append(proc_conns, [proc |-> proc, conns |-> <<c>>])

\* proc_conns.setdefault(proc, []).append(c)
AddConn(proc_conns, proc, c) ==
    IF HasKey(proc_conns, proc)
    THEN [i \in DOMAIN proc_conns |->
            IF proc_conns[i].proc = proc
            THEN [proc_conns[i] EXCEPT !.conns = Append(@, c)]
            ELSE proc_conns[i]]
    ELSE Append(proc_conns, [proc |-> proc, conns |-> <<c>>])

\* one iteration of "for r in body"; st = [totals, conns, cur], cur = ""
\* for None
ParseRow(st, r, cols) ==
    LET cell1 == IF Len(r) > 1 THEN r[2] ELSE Txt("")
        iface == TextAt(r, cols.iface)
        state == TextAt(r, cols.state)
        is_conn == CellKind(cell1) = "conn" /\ (cell1[2] \/ cell1[3])
    IN IF is_conn
       THEN IF st.cur # ""
            THEN [st EXCEPT !.conns = AddConn(@, st.cur,
                     [iface |-> IF iface = "" THEN "-" ELSE iface,
                      state |-> IF state = "" THEN "-" ELSE state,
                      local |-> cell1[4],
                      remote |-> IF cell1[2] THEN cell1[5] ELSE ""])]
            ELSE st
       ELSE LET proc == CASE CellKind(cell1) = "txt" -> cell1[2]
                          [] CellKind(cell1) = "conn" -> cell1[4]
                          [] OTHER -> ToString(cell1[2])
                c == ParseCounters(r, cols.bin, cols.bout)
            IN IF proc = "" THEN st
               ELSE [totals |-> DictSet(st.totals,
                                        [proc |-> proc, bin |-> c.bin, bout |-> c.bout]),
                     conns |-> IF HasKey(st.conns, proc) THEN st.conns
                               ELSE Append(st.conns, [proc |-> proc, conns |-> <<>>]),
                     cur |-> proc]

RECURSIVE ParseBody(_, _, _)
ParseBody(st, body, cols) ==
    IF body = <<>> THEN st
    ELSE ParseBody(ParseRow(st, Head(body), cols), Tail(body), cols)

\* parse_snapshot(cmd), given what running cmd did
parse_snapshot(result) ==
    LET csv == run_csv(result)
    IN IF csv.raised THEN [raised |-> TRUE, totals |-> <<>>, conns |-> <<>>]
       ELSE IF csv.header = <<>> THEN [raised |-> FALSE, totals |-> <<>>, conns |-> <<>>]
       ELSE LET cols == [iface |-> ColOf(csv.header, "interface"),
                         state |-> ColOf(csv.header, "state"),
                         bin |-> ColOf(csv.header, "bytes_in"),
                         bout |-> ColOf(csv.header, "bytes_out")]
                st == ParseBody([totals |-> <<>>, conns |-> <<>>, cur |-> ""],
                                csv.body, cols)
            IN [raised |-> FALSE, totals |-> st.totals, conns |-> st.conns]

\* ----------------------------------------------------------------- inputs
\* The processes of the model, in the order the source lists them.
ProcOrder == <<"p", "q">>

\* every ProcTotals over the processes ps (kept in that order), a process
\* absent or with bytes_in in 0..m and bytes_out in 0..n
RECURSIVE TotalsOver(_, _, _)
TotalsOver(ps, m, n) ==
    IF ps = <<>> THEN {<<>>}
    ELSE LET rest == TotalsOver(Tail(ps), m, n)
         IN rest \cup {<<[proc |-> Head(ps), bin |-> i, bout |-> o]>> \o t :
                          i \in 0..m, o \in 0..n, t \in rest}

\* the sockets the source lists under a process
SocketsOf(proc) ==
    IF proc = "p"
    THEN <<[iface |-> "en0", state |-> "Established", local |-> "a:1", remote |-> "r:443"],
           [iface |-> "en0", state |-> "Established", local |-> "a:2", remote |-> "r:443"]>>
    ELSE <<[iface |-> "lo0", state |-> "Listen", local |-> "b:1", remote |-> ""]>>

\* curr_conns as parse_snapshot builds it for these totals
ConnsFor(totals) ==
    [i \in DOMAIN totals |-> [proc |-> totals[i].proc, conns |-> SocketsOf(totals[i].proc)]]

HeaderLine ==
    <<Txt("time"), Txt(""), Txt("interface"), Txt("state"),
      Txt("bytes_in"), Txt("bytes_out")>>

ProcLine(e) ==
    <<Txt("12:00:00"), Txt(e.proc), Txt(""), Txt(""), Num(e.bin), Num(e.bout)>>

ConnLine(c) ==
    <<Txt("12:00:00"), Conn(c.remote # "", TRUE, c.local, c.remote),
      Txt(c.iface), Txt(c.state), Txt(""), Txt("")>>

RECURSIVE BodyLines(_)
BodyLines(totals) ==
    IF totals = <<>> THEN <<>>
    ELSE LET socks == SocketsOf(Head(totals).proc)
         IN <<ProcLine(Head(totals))>> \o [k \in DOMAIN socks |-> ConnLine(socks[k])]
            \o BodyLines(Tail(totals))

\* the text nettop prints for these totals
SourceText(totals) == Output(<<HeaderLine>> \o BodyLines(totals))

\* what one run of the command can do: fail, print nothing, or print one
\* of these totals
SourcesOf(totals) ==
    {Failed("exit"), Failed("other"), Output(<<>>)}
    \cup {SourceText(t) : t \in totals}

Sources(ps, m, n) == SourcesOf(TotalsOver(ps, m, n))

\* the keys of the model: the commands, an upper-case letter, a key that is
\* no command, and a key code >= 256
KeySet == {"q", "Q", "h", "i", "o", "d", "m", "t", "x", "KEY_RESIZE"}

\* what is typed at the interval prompt: nothing, text float() refuses, a
\* number (in clock units)
Entries == {<<"empty">>, <<"text">>, <<"num", 0>>, <<"num", 1>>}

\* the inputs of the control runs: one process that only receives, all
\* timings (a sample that takes no time or longer than an interval, a key at
\* once or later, a prompt answered at once or later)
CtlEnv ==
    [sources |-> Sources(<<"p">>, LoopCtr, 0), fetchDurs |-> {0, 3}, drawDurs |-> {0},
     keyTimes |-> {0, 1}, promptDurs |-> {0, 1}, entries |-> Entries,
     keys |-> KeySet, groups |-> {"process"},
     intervals |-> {2}, account |-> FALSE,
     thresholds |-> {<<0, 1>>}, tops |-> {2}, argLists |-> {<<>>}]

\* the inputs of the data runs: two processes, p receiving and sending at
\* most one byte, q only sending; both grouping modes; the sort keys; a
\* sample takes one clock unit, which is also the interval
DataEnv ==
    [sources |-> SourcesOf({a \o b : a \in TotalsOver(<<"p">>, LoopCtr, 1),
                                     b \in TotalsOver(<<"q">>, 0, LoopCtr)}),
     fetchDurs |-> {1}, drawDurs |-> {0}, keyTimes |-> {0}, promptDurs |-> {0},
     entries |-> {<<"empty">>}, keys |-> {"q", "i", "o", "d", "t"},
     groups |-> {"process", "remote"}, intervals |-> {1}, account |-> FALSE,
     thresholds |-> {<<0, 1>>}, tops |-> {2}, argLists |-> {<<>>}]

\* the inputs of the accounting runs: one process, both counters, a sample
\* takes one clock unit; the deltas of the process are added up (account)
AcctEnv ==
    [sources |-> Sources(<<"p">>, LoopCtr, LoopCtr), fetchDurs |-> {1},
     drawDurs |-> {0}, keyTimes |-> {0}, promptDurs |-> {0},
     entries |-> {<<"num", 1>>}, keys |-> {"q", "t"},
     groups |-> {"process"}, intervals |-> {2}, account |-> TRUE,
     thresholds |-> {<<0, 1>>}, tops |-> {2}, argLists |-> {<<>>}]

\* the inputs of the drawing runs: one process, both counters; a negative,
\* a zero and a positive threshold, the positive one (25/256 KB/s = 100
\* bytes/s) being the rate of one byte per clock unit; the key m
HiEnv ==
    [sources |-> Sources(<<"p">>, LoopCtr, 1), fetchDurs |-> {1},
     drawDurs |-> {0}, keyTimes |-> {0}, promptDurs |-> {0},
     entries |-> {<<"empty">>}, keys |-> {"q", "m", "t"},
     groups |-> {"process"}, intervals |-> {1}, account |-> FALSE,
     thresholds |-> {<<0 - 1, 1>>, <<0, 1>>, <<25, 256>>}, tops |-> {2},
     argLists |-> {<<>>}]

\* ------------------------------------------------------------------ state
VARIABLES
    pc,              \* where main is: start, ui_warmup, ui_init, ui_fetch,
                     \* ui_poll, ui_prompt, ui_entry, stream_warmup, stream_fetch,
                     \* stream_sleep, done; rows_in, rows_out for build_rows alone
    exit_status,     \* running | ok (main returned 0) | interrupt
                     \* (KeyboardInterrupt left main) | error (an Exception left main)
    ui_failed,       \* main's except clause ran: the UI raised
    group,           \* args.group
    interval,        \* args.interval, in clock units
    monotonic,       \* time.monotonic(), in clock units
    prev_totals,     \* the loop's prev_totals
    prev_time,       \* the loop's prev_time
    next_target,     \* the loop's next_target
    sort_key,        \* in | out | delta
    display_metric,  \* delta | sum
    show_help,
    curr_totals,     \* the tick's curr_totals
    curr_conns,      \* the tick's curr_conns
    dt_seconds,      \* build_rows' dt_seconds when it is run alone, in microseconds
    rows,            \* the rows of the last tick, as handed to the renderer
    remaining,       \* the tick's remaining, in clock units
    ms,              \* the timeout of the keystroke wait, in milliseconds
    s,               \* what prompt_interval_blocking returned
    event,           \* history: the last thing the environment did
    acct,            \* history: the deltas of the watched process in this loop
    threshold,       \* args.threshold, KB/s, as a fraction <<n, d>>
    top,             \* args.top
    nettop_args,     \* main's nettop_args, after the leading "--" is dropped
    cmd,             \* main's cmd
    drawn            \* of each row drawn at the last tick, whether it is emphasised

vars == <<pc, exit_status, ui_failed, group, interval, monotonic, prev_totals,
          prev_time, next_target, sort_key, display_metric, show_help,
          curr_totals, curr_conns, dt_seconds, rows, remaining, ms, s, event,
          acct, threshold, top, nettop_args, cmd, drawn>>

\* the variables a loop's tick assigns
tickVars == <<prev_totals, prev_time, next_target, curr_totals, curr_conns,
              rows, remaining, ms>>

uiVars == <<sort_key, display_metric, show_help>>

\* the arguments and build_rows' own dt, which no loop touches
argVars == <<group, dt_seconds, threshold, top, nettop_args>>

\* what no loop touches, and what only a sample touches: the accounting
\* history and the drawn rows
fixedVars == <<argVars, cmd, acct, drawn>>

NoEntry == <<"none">>

NoEvent == [kind |-> "none"]

\* the process whose deltas are added up
Watched == "p"

\* the accounting history: <<seen, mono, first, last, sum>>, the counters as
\* <<bytes_in, bytes_out>>.  seen: the process was in a snapshot of this
\* loop; mono: its counters never went down; first, last: its first and its
\* latest counters; sum: the deltas the loop computed for it, added up
NoAcct == <<FALSE, TRUE, <<0, 0>>, <<0, 0>>, <<0, 0>>>>

\* the history once a counter went down
Decreased == <<TRUE, FALSE, <<0, 0>>, <<0, 0>>, <<0, 0>>>>

\* the history after a snapshot; counted: the loop computes deltas from it
\* (a tick), or it only becomes prev_totals (the warm-up)
Observe(a, prev, totals, counted) ==
    IF ~HasKey(totals, Watched) THEN a
    ELSE LET e == Lookup(totals, Watched)
             r == RateOf(prev, e, 1)
             d == IF counted THEN <<r.din, r.dout>> ELSE <<0, 0>>
         IN IF ~a[1] THEN <<TRUE, TRUE, <<e.bin, e.bout>>, <<e.bin, e.bout>>, d>>
            ELSE IF ~a[2] \/ e.bin < a[4][1] \/ e.bout < a[4][2] THEN Decreased
            ELSE <<TRUE, TRUE, a[3], <<e.bin, e.bout>>, <<a[5][1] + d[1], a[5][2] + d[2]>>>>

Init(E) ==
    /\ pc = "start"
    /\ exit_status = "running"
    /\ ui_failed = FALSE
    /\ group \in E.groups
    /\ interval \in E.intervals
    /\ monotonic = 0
    /\ prev_totals = <<>>
    /\ prev_time = 0
    /\ next_target = 0
    /\ sort_key = "delta"
    /\ display_metric = "delta"
    /\ show_help = TRUE
    /\ curr_totals = <<>>
    /\ curr_conns = <<>>
    /\ dt_seconds = 0
    /\ rows = <<>>
    /\ remaining = 0
    /\ ms = 0
    /\ s = NoEntry
    /\ event = NoEvent
    /\ acct = NoAcct
    /\ threshold \in E.thresholds
    /\ top \in E.tops
    /\ nettop_args \in E.argLists
    /\ cmd = <<>>
    /\ drawn = <<>>

\* --------------------------------------------------------------- the loops
\* dt = max(1e-6, now - prev_time), in microseconds
Elapsed(now, prev) == Max(EpsUs, (now - prev) * UsPerUnit)

\* the floor left out: int(remaining * 1000)
TimeoutUnfloored(rem) == rem * UnitMs

\* ms = max(10, int(remaining * 1000))
TimeoutMs(rem) == Max(10, rem * UnitMs)

\* the rows left in the order build_rows made them
Unranked(rs, key) == rs

\* the loop's ranking of the tick's rows
Ranked(rs, key) == SortRows(rs, key)

\* only a failure of the screen's set-up is taken
CaughtInitOnly(why) == why = "init"

\* main's "except Exception": whatever ui_loop raises is taken
Caught(why) == TRUE

\* main's "except Exception": the UI is given up and non_ui_loop starts.
\* What lived in ui_loop's frame is gone.
Fallback(t, why) ==
    /\ pc' = "stream_warmup"
    /\ ui_failed' = TRUE
    /\ monotonic' = t
    /\ show_help' = TRUE
    /\ curr_totals' = <<>>
    /\ curr_conns' = <<>>
    /\ rows' = <<>>
    /\ remaining' = 0
    /\ ms' = 0
    /\ s' = NoEntry
    /\ event' = [kind |-> "ui_error", why |-> why]
    /\ drawn' = <<>>
    /\ UNCHANGED <<exit_status, argVars, cmd, acct, interval, prev_totals, prev_time,
                   next_target, sort_key, display_metric>>

\* main is left, by its return or by an exception: what lived in the loops'
\* frames is gone
Leave(status, t, ev) ==
    /\ pc' = "done"
    /\ exit_status' = status
    /\ monotonic' = t
    /\ event' = ev
    /\ prev_totals' = <<>>
    /\ prev_time' = 0
    /\ next_target' = 0
    /\ curr_totals' = <<>>
    /\ curr_conns' = <<>>
    /\ rows' = <<>>
    /\ remaining' = 0
    /\ ms' = 0
    /\ s' = NoEntry
    /\ sort_key' = "delta"
    /\ display_metric' = "delta"
    /\ show_help' = TRUE
    /\ drawn' = <<>>
    /\ UNCHANGED <<ui_failed, argVars, cmd, acct, interval>>

\* ui_loop raises an Exception: main takes it and falls back, or it leaves
\* main
UiRaise(t, why) ==
    IF Caught(why) THEN Fallback(t, why)
    ELSE Leave("error", t, [kind |-> "ui_error", why |-> why])

\* use_ui = stdin and stdout are terminals and TERM is set
Start ==
    /\ pc = "start"
    /\ \E use_ui \in BOOLEAN :
          pc' = IF use_ui THEN "ui_warmup" ELSE "stream_warmup"
    /\ sort_key' = "delta"
    /\ display_metric' = "delta"
    /\ show_help' = TRUE
    /\ cmd' = build_nettop_cmd(nettop_args)
    /\ UNCHANGED <<exit_status, ui_failed, argVars, acct, drawn, interval, monotonic, tickVars,
                   s, event>>

\* ui_loop: the warm-up snapshot and its time anchor
UiWarmup(E) ==
    /\ pc = "ui_warmup"
    /\ \E result \in E.sources, d \in E.fetchDurs :
          LET snap == parse_snapshot(result)
              t == monotonic + d
          IN /\ t <= MaxTime
             /\ IF snap.raised THEN UiRaise(t, "fetch")
                ELSE /\ prev_totals' = snap.totals
                     /\ prev_time' = t
                     /\ monotonic' = t
                     /\ pc' = "ui_init"
                     /\ event' = [kind |-> "warmup", result |-> result]
                     /\ acct' = IF E.account
                                THEN Observe(NoAcct, <<>>, snap.totals, FALSE)
                                ELSE acct
                     /\ UNCHANGED <<exit_status, ui_failed, argVars, cmd, drawn,
                                    interval, next_target, curr_totals, curr_conns,
                                    rows, remaining, ms, s, uiVars>>

\* curses.wrapper and setup_colors got the screen; loop() sets its anchor
UiInit ==
    /\ pc = "ui_init"
    /\ next_target' = monotonic
    /\ pc' = "ui_fetch"
    /\ event' = NoEvent
    /\ UNCHANGED <<exit_status, ui_failed, fixedVars, interval, monotonic, prev_totals,
                   prev_time, curr_totals, curr_conns, rows, remaining, ms, s, uiVars>>

\* curses.wrapper or setup_colors raised
UiInitFail ==
    /\ pc = "ui_init"
    /\ UiRaise(monotonic, "init")

\* one pass of loop() from the sample to the timeout of the keystroke wait
UiTick(E) ==
    /\ pc = "ui_fetch"
    /\ \E result \in E.sources, d \in E.fetchDurs, w \in E.drawDurs :
          LET snap == parse_snapshot(result)
              now == monotonic + d
              target == next_target + interval
              rem == Max(0, target - (now + w))
          IN /\ now + w <= MaxTime
             /\ target <= MaxTime
             /\ IF snap.raised THEN UiRaise(now, "fetch")
                ELSE /\ curr_totals' = snap.totals
                     /\ curr_conns' = snap.conns
                     /\ rows' = Ranked(build_rows(group, prev_totals, snap.totals,
                                                  snap.conns, Elapsed(now, prev_time)),
                                       sort_key)
                     /\ prev_totals' = snap.totals
                     /\ prev_time' = now
                     /\ next_target' = target
                     /\ remaining' = rem
                     /\ ms' = TimeoutMs(rem)
                     /\ monotonic' = now + w
                     /\ pc' = "ui_poll"
                     /\ event' = [kind |-> "fetch", ok |-> Succeeded(result)]
                     /\ acct' = IF E.account
                                THEN Observe(acct, prev_totals, snap.totals, TRUE)
                                ELSE acct
                     /\ drawn' = Draw(rows', display_metric, threshold, top)
                     /\ UNCHANGED <<exit_status, ui_failed, argVars, cmd,
                                    interval, s, uiVars>>

\* a pass of loop() in which draw raises (curses.error)
UiDrawFail(E) ==
    /\ pc = "ui_fetch"
    /\ \E d \in E.fetchDurs :
          /\ monotonic + d <= MaxTime
          /\ UiRaise(monotonic + d, "draw")

\* a key that is no command taken for h
KeyActionLoose(key) ==
    LET c == IF key = "KEY_RESIZE" THEN "" ELSE IF key = "Q" THEN "q" ELSE key
    IN CASE c = "q" -> "quit"
         [] c = "h" -> "help"
         [] c = "i" -> "sort_in"
         [] c = "o" -> "sort_out"
         [] c = "d" -> "sort_delta"
         [] c = "m" -> "toggle_metric_column"
         [] c = "t" -> "change_interval"
         [] OTHER -> "help"

\* poll_key: the key read, as the action it names ("" for None)
KeyAction(key) ==
    LET c == IF key = "KEY_RESIZE" THEN "" ELSE IF key = "Q" THEN "q" ELSE key
    IN CASE c = "q" -> "quit"
         [] c = "h" -> "help"
         [] c = "i" -> "sort_in"
         [] c = "o" -> "sort_out"
         [] c = "d" -> "sort_delta"
         [] c = "m" -> "toggle_metric_column"
         [] c = "t" -> "change_interval"
         [] OTHER -> ""

\* getch timed out: poll_key returns None
PollTimeout ==
    /\ pc = "ui_poll"
    /\ monotonic + (ms \div UnitMs) <= MaxTime
    /\ monotonic' = monotonic + (ms \div UnitMs)
    /\ pc' = "ui_fetch"
    /\ event' = NoEvent
    /\ UNCHANGED <<exit_status, ui_failed, fixedVars, interval, tickVars, s, uiVars>>

\* a key arrives before the timeout; loop() acts on it
PollKey(E) ==
    /\ pc = "ui_poll"
    /\ \E key \in E.keys, at \in E.keyTimes :
          LET action == KeyAction(key)
          IN /\ at < ms \div UnitMs
             /\ monotonic + at <= MaxTime
             /\ IF action = "quit"
                THEN Leave("ok", monotonic + at, [kind |-> "quit"])
                ELSE /\ monotonic' = monotonic + at
                     /\ event' = [kind |-> "key", key |-> key]
                     /\ pc' = IF action = "change_interval" THEN "ui_prompt"
                              ELSE "ui_fetch"
                     /\ show_help' = IF action = "help" THEN ~show_help ELSE show_help
                     /\ sort_key' = CASE action = "sort_in" -> "in"
                                      [] action = "sort_out" -> "out"
                                      [] action = "sort_delta" -> "delta"
                                      [] OTHER -> sort_key
                     /\ display_metric' =
                           IF action = "toggle_metric_column"
                           THEN (IF display_metric = "delta" THEN "sum" ELSE "delta")
                           ELSE display_metric
                     /\ UNCHANGED <<exit_status, ui_failed, fixedVars, interval,
                                    tickVars, s>>

\* KeyboardInterrupt inside getch: poll_key returns "quit"
PollInterrupt(E) ==
    /\ pc = "ui_poll"
    /\ \E at \in E.keyTimes :
          /\ at <= ms \div UnitMs
          /\ monotonic + at <= MaxTime
          /\ Leave("ok", monotonic + at, [kind |-> "interrupt", at |-> "ui_poll"])

\* float(s) of the prompt's text, val > 0
ValidEntry(entry) == entry[1] = "num" /\ entry[2] > 0

\* the interval the entry leaves
EntryInterval(entry, old) == IF ValidEntry(entry) THEN entry[2] ELSE old

\* the anchor after the prompt: next_target = time.monotonic()
EntryAnchor(entry, old, t) == t

\* prompt_interval_blocking returns its text (an exception inside getstr
\* gives the empty text)
PromptReturn(E) ==
    /\ pc = "ui_prompt"
    /\ \E entry \in E.entries, d \in E.promptDurs :
          /\ monotonic + d <= MaxTime
          /\ monotonic' = monotonic + d
          /\ s' = entry
    /\ pc' = "ui_entry"
    /\ UNCHANGED <<exit_status, ui_failed, fixedVars, interval, tickVars, uiVars, event>>

\* loop() takes the text: lines 392-399
ApplyEntry ==
    /\ pc = "ui_entry"
    /\ interval' = EntryInterval(s, interval)
    /\ next_target' = EntryAnchor(s, next_target, monotonic)
    /\ s' = NoEntry
    /\ pc' = "ui_fetch"
    /\ UNCHANGED <<exit_status, ui_failed, fixedVars, monotonic, prev_totals, prev_time,
                   curr_totals, curr_conns, rows, remaining, ms, uiVars, event>>

\* KeyboardInterrupt anywhere in ui_loop but inside getch: no except clause
\* of ui_loop or main takes it
UiInterrupt ==
    /\ pc \in {"ui_warmup", "ui_init", "ui_fetch", "ui_prompt", "ui_entry"}
    /\ Leave("interrupt", monotonic, [kind |-> "interrupt", at |-> pc])

\* non_ui_loop: the warm-up snapshot, the loop's own state
StreamWarmup(E) ==
    /\ pc = "stream_warmup"
    /\ \E result \in E.sources, d \in E.fetchDurs :
          LET snap == parse_snapshot(result)
              t == monotonic + d
          IN /\ t <= MaxTime
             /\ IF snap.raised THEN Leave("error", t, [kind |-> "raised"])
                ELSE /\ prev_totals' = snap.totals
                     /\ prev_time' = t
                     /\ display_metric' = "delta"
                     /\ sort_key' = "delta"
                     /\ next_target' = t
                     /\ monotonic' = t
                     /\ pc' = "stream_fetch"
                     /\ event' = [kind |-> "warmup", result |-> result]
                     /\ acct' = IF E.account
                                THEN Observe(NoAcct, <<>>, snap.totals, FALSE)
                                ELSE acct
                     /\ UNCHANGED <<exit_status, ui_failed, argVars, cmd, drawn,
                                    interval, show_help, curr_totals, curr_conns,
                                    rows, remaining, ms, s>>

\* one pass of non_ui_loop from the sample to the sleep
StreamTick(E) ==
    /\ pc = "stream_fetch"
    /\ \E result \in E.sources, d \in E.fetchDurs, w \in E.drawDurs :
          LET snap == parse_snapshot(result)
              now == monotonic + d
              target == next_target + interval
              rem == Max(0, target - (now + w))
          IN /\ now + w <= MaxTime
             /\ target <= MaxTime
             /\ IF snap.raised THEN Leave("error", now, [kind |-> "raised"])
                ELSE /\ curr_totals' = snap.totals
                     /\ curr_conns' = snap.conns
                     /\ rows' = Ranked(build_rows(group, prev_totals, snap.totals,
                                                  snap.conns, Elapsed(now, prev_time)),
                                       sort_key)
                     /\ prev_totals' = snap.totals
                     /\ prev_time' = now
                     /\ next_target' = target
                     /\ remaining' = rem
                     /\ monotonic' = now + w
                     /\ pc' = "stream_sleep"
                     /\ event' = [kind |-> "fetch", ok |-> Succeeded(result)]
                     /\ acct' = IF E.account
                                THEN Observe(acct, prev_totals, snap.totals, TRUE)
                                ELSE acct
                     /\ drawn' = Draw(rows', display_metric, threshold, top)
                     /\ UNCHANGED <<exit_status, ui_failed, argVars, cmd,
                                    interval, ms, s, uiVars>>

\* time.sleep(remaining) returns
StreamSleep ==
    /\ pc = "stream_sleep"
    /\ monotonic + remaining <= MaxTime
    /\ monotonic' = monotonic + remaining
    /\ pc' = "stream_fetch"
    /\ event' = NoEvent
    /\ UNCHANGED <<exit_status, ui_failed, fixedVars, interval, tickVars, s, uiVars>>

\* KeyboardInterrupt inside the try of non_ui_loop: "Exiting.", return 0
StreamInterrupt ==
    /\ pc \in {"stream_fetch", "stream_sleep"}
    /\ Leave("ok", monotonic, [kind |-> "interrupt", at |-> pc])

\* KeyboardInterrupt in the warm-up of non_ui_loop, before its try
StreamWarmupInterrupt ==
    /\ pc = "stream_warmup"
    /\ Leave("interrupt", monotonic, [kind |-> "interrupt", at |-> pc])

Step(E) ==
    \/ Start
    \/ UiWarmup(E)
    \/ UiInit
    \/ UiInitFail
    \/ UiTick(E)
    \/ UiDrawFail(E)
    \/ PollTimeout
    \/ PollKey(E)
    \/ PollInterrupt(E)
    \/ PromptReturn(E)
    \/ ApplyEntry
    \/ UiInterrupt
    \/ StreamWarmup(E)
    \/ StreamTick(E)
    \/ StreamSleep
    \/ StreamInterrupt
    \/ StreamWarmupInterrupt

InitCtl == Init(CtlEnv)

Next == Step(CtlEnv)

Spec == InitCtl /\ [][Next]_vars

InitData == Init(DataEnv)

NextData == Step(DataEnv)

SpecData == InitData /\ [][NextData]_vars

InitAcct == Init(AcctEnv)

NextAcct == Step(AcctEnv)

SpecAcct == InitAcct /\ [][NextAcct]_vars

InitDraw == Init(HiEnv)

NextDraw == Step(HiEnv)

SpecDraw == InitDraw /\ [][NextDraw]_vars

\* ------------------------------------------------------- build_rows alone
\* the elapsed times handed to build_rows, in microseconds
DtInputs == {0, 1, 3}

\* build_rows' inputs: any two ProcTotals; the connection lists of the
\* source, or none
InitRows ==
    /\ pc = "rows_in"
    /\ exit_status = "running"
    /\ ui_failed = FALSE
    /\ group \in {"process", "remote"}
    /\ interval = 0
    /\ monotonic = 0
    /\ prev_totals \in TotalsOver(ProcOrder, MaxCtr, MaxCtr)
    /\ prev_time = 0
    /\ next_target = 0
    /\ sort_key = "delta"
    /\ display_metric = "delta"
    /\ show_help = TRUE
    /\ curr_totals \in TotalsOver(ProcOrder, MaxCtr, MaxCtr)
    /\ curr_conns \in {ConnsFor(curr_totals),
                       [i \in DOMAIN curr_totals |->
                          [proc |-> curr_totals[i].proc, conns |-> <<>>]]}
    /\ dt_seconds \in DtInputs
    /\ rows = <<>>
    /\ remaining = 0
    /\ ms = 0
    /\ s = NoEntry
    /\ event = NoEvent
    /\ acct = NoAcct
    /\ threshold = <<0, 1>>
    /\ top = 0
    /\ nettop_args = <<>>
    /\ cmd = <<>>
    /\ drawn = <<>>

BuildRows ==
    /\ pc = "rows_in"
    /\ rows' = build_rows(group, prev_totals, curr_totals, curr_conns, dt_seconds)
    /\ pc' = "rows_out"
    /\ UNCHANGED <<exit_status, ui_failed, fixedVars, interval, monotonic, prev_totals,
                   prev_time, next_target, curr_totals, curr_conns, remaining, ms, s,
                   uiVars, event>>

NextRows == BuildRows

SpecRows == InitRows /\ [][NextRows]_vars

\* ------------------------------------- build_rows on the connection lists
\* the connections of the model: one per interface name, and on en0 a second
\* local endpoint, a second state and a second remote; one without remote,
\* one without interface
ConnSet ==
    {[iface |-> i, state |-> "Established", local |-> "a:1", remote |-> "r:443"] :
        i \in IfaceNames}
    \cup {[iface |-> "en0", state |-> "Established", local |-> "a:2", remote |-> "r:443"],
          [iface |-> "en0", state |-> "Listen", local |-> "a:1", remote |-> "r:443"],
          [iface |-> "en0", state |-> "Established", local |-> "a:1", remote |-> "r:80"],
          [iface |-> "lo0", state |-> "Listen", local |-> "b:1", remote |-> ""],
          [iface |-> "", state |-> "Listen", local |-> "b:2", remote |-> ""]}

RECURSIVE ConnLists(_)
ConnLists(n) ==
    IF n = 0 THEN {<<>>}
    ELSE ConnLists(n - 1) \cup {Append(l, c) : l \in ConnLists(n - 1), c \in ConnSet}

\* p has traffic and any connection list; q has the source's connections,
\* with traffic or without
InitConns ==
    /\ pc = "rows_in"
    /\ exit_status = "running"
    /\ ui_failed = FALSE
    /\ group \in {"process", "remote"}
    /\ interval = 0
    /\ monotonic = 0
    /\ prev_totals = <<[proc |-> "p", bin |-> 0, bout |-> 0],
                       [proc |-> "q", bin |-> 0, bout |-> 0]>>
    /\ prev_time = 0
    /\ next_target = 0
    /\ sort_key = "delta"
    /\ display_metric = "delta"
    /\ show_help = TRUE
    /\ \E out \in 0..1 :
          curr_totals = <<[proc |-> "p", bin |-> 1, bout |-> 0],
                          [proc |-> "q", bin |-> 0, bout |-> out]>>
    /\ \E l \in ConnLists(MaxConns) :
          curr_conns = <<[proc |-> "p", conns |-> l],
                         [proc |-> "q", conns |-> SocketsOf("q")]>>
    /\ dt_seconds = 1
    /\ rows = <<>>
    /\ remaining = 0
    /\ ms = 0
    /\ s = NoEntry
    /\ event = NoEvent
    /\ acct = NoAcct
    /\ threshold = <<0, 1>>
    /\ top = 0
    /\ nettop_args = <<>>
    /\ cmd = <<>>
    /\ drawn = <<>>

NextConns == BuildRows

SpecConns == InitConns /\ [][NextConns]_vars

\* ---------------------------------------------------- parse_snapshot alone
\* a header without the bytes_out column
HeaderNoOut ==
    <<Txt("time"), Txt(""), Txt("interface"), Txt("state"), Txt("bytes_in")>>

\* the rows of the model, six cells wide: process rows of p and q, p with
\* text in one byte column, a row that ends after the name, an empty line,
\* a row without a name, a connection row with "<->" and one with a
\* protocol prefix only
LineSet ==
    {<<Txt("12:00:00"), Txt("p"), Txt(""), Txt(""), Num(1), Num(1)>>,
     <<Txt("12:00:00"), Txt("q"), Txt(""), Txt(""), Num(0), Num(1)>>,
     <<Txt("12:00:00"), Txt("p"), Txt(""), Txt(""), Txt("x"), Num(1)>>,
     <<Txt("12:00:00"), Txt("p"), Txt(""), Txt(""), Num(1), Txt("x")>>,
     <<Txt("12:00:00"), Txt("q")>>,
     <<>>,
     <<Txt("12:00:00"), Txt(""), Txt(""), Txt(""), Num(1), Num(1)>>,
     <<Txt("12:00:00"), Conn(TRUE, TRUE, "a:1", "r:443"), Txt("en0"),
       Txt("Established"), Txt(""), Txt("")>>,
     <<Txt("12:00:00"), Conn(FALSE, TRUE, "tcp4 a:2", ""), Txt("lo0"),
       Txt("Listen"), Txt(""), Txt("")>>}

RECURSIVE Bodies(_)
Bodies(n) ==
    IF n = 0 THEN {<<>>}
    ELSE Bodies(n - 1) \cup {Append(b, l) : b \in Bodies(n - 1), l \in LineSet}

\* a row cut to the width of the header
CutTo(header, r) == SubSeq(r, 1, IF Len(r) <= Len(header) THEN Len(r) ELSE Len(header))

\* the text of a header and a body
TextOf(header, body) ==
    Output(<<header>> \o [k \in DOMAIN body |-> CutTo(header, body[k])])

InitParse ==
    /\ pc = "parse_in"
    /\ exit_status = "running"
    /\ ui_failed = FALSE
    /\ group = "process"
    /\ interval = 0
    /\ monotonic = 0
    /\ prev_totals \in {<<[proc |-> "p", bin |-> 0, bout |-> 0],
                           [proc |-> "q", bin |-> 0, bout |-> 0]>>,
                         <<[proc |-> "p", bin |-> 0, bout |-> 1]>>}
    /\ prev_time = 0
    /\ next_target = 0
    /\ sort_key = "delta"
    /\ display_metric = "delta"
    /\ show_help = TRUE
    /\ curr_totals = <<>>
    /\ curr_conns = <<>>
    /\ dt_seconds = 1
    /\ rows = <<>>
    /\ remaining = 0
    /\ ms = 0
    /\ s = NoEntry
    /\ \E header \in {HeaderLine, HeaderNoOut}, body \in Bodies(MaxLines) :
          event = [kind |-> "source", result |-> TextOf(header, body)]
    /\ acct = NoAcct
    /\ threshold = <<0, 1>>
    /\ top = 0
    /\ nettop_args = <<>>
    /\ cmd = <<>>
    /\ drawn = <<>>

\* parse_snapshot on the text, and the rows build_rows makes of its result
ParseSnapshot ==
    /\ pc = "parse_in"
    /\ LET snap == parse_snapshot(event.result)
       IN /\ curr_totals' = snap.totals
          /\ curr_conns' = snap.conns
          /\ exit_status' = IF snap.raised THEN "error" ELSE exit_status
          /\ rows' = IF snap.raised THEN <<>>
                     ELSE build_rows(group, prev_totals, snap.totals, snap.conns,
                                     dt_seconds)
    /\ pc' = "parse_out"
    /\ UNCHANGED <<ui_failed, fixedVars, interval, monotonic, prev_totals, prev_time,
                   next_target, remaining, ms, s, uiVars, event>>

NextParse == ParseSnapshot

SpecParse == InitParse /\ [][NextParse]_vars

\* -------------------------------------------------- build_nettop_cmd alone
\* the pass-through arguments of the model: the options the builder looks
\* for, in both cases; an option with a value; a word holding "-l"
ArgWords ==
    {<<"-", "n">>, <<"-", "x">>, <<"-", "l">>, <<"-", "L">>, <<"-", "N">>,
     <<"1">>, <<"-", "p">>, <<"w", "-", "l", "a", "n">>}

RECURSIVE ArgLists(_)
ArgLists(n) ==
    IF n = 0 THEN {<<>>}
    ELSE ArgLists(n - 1) \cup {Append(a, w) : a \in ArgLists(n - 1), w \in ArgWords}

InitCmd ==
    /\ pc = "cmd_in"
    /\ exit_status = "running"
    /\ ui_failed = FALSE
    /\ group = "process"
    /\ interval = 0
    /\ monotonic = 0
    /\ prev_totals = <<>>
    /\ prev_time = 0
    /\ next_target = 0
    /\ sort_key = "delta"
    /\ display_metric = "delta"
    /\ show_help = TRUE
    /\ curr_totals = <<>>
    /\ curr_conns = <<>>
    /\ dt_seconds = 0
    /\ rows = <<>>
    /\ remaining = 0
    /\ ms = 0
    /\ s = NoEntry
    /\ event = NoEvent
    /\ acct = NoAcct
    /\ threshold = <<0, 1>>
    /\ top = 0
    /\ nettop_args \in ArgLists(MaxArgs)
    /\ cmd = <<>>
    /\ drawn = <<>>

BuildCmd ==
    /\ pc = "cmd_in"
    /\ cmd' = build_nettop_cmd(nettop_args)
    /\ pc' = "cmd_out"
    /\ UNCHANGED <<exit_status, ui_failed, argVars, acct, drawn, interval, monotonic,
                   tickVars, s, uiVars, event>>

NextCmd == BuildCmd

SpecCmd == InitCmd /\ [][NextCmd]_vars

\* ------------------------------------------------------------------ claims
\* the delta the spec states: curr - prev, 0 after a counter reset
StatedDelta(curr, prev) == IF curr >= prev THEN curr - prev ELSE 0

\* the elapsed time build_rows divides by
UsedDt == IF dt_seconds <= 0 THEN EpsUs ELSE dt_seconds

\* C1: in build_rows, for a process in both totals and for each direction,
\* the rate is (curr - prev) / dt when curr >= prev and 0 when curr < prev;
\* no row has a negative rin, rout, rsum or rdelta.
C1_DeltaClamped ==
    pc = "rows_out" =>
        \A i \in DOMAIN rows :
            LET r == rows[i]
                c == Lookup(curr_totals, r.proc)
            IN /\ RatNonNeg(r.rin) /\ RatNonNeg(r.rout)
               /\ RatNonNeg(r.rsum) /\ RatNonNeg(r.rdelta)
               /\ HasKey(prev_totals, r.proc) =>
                     LET q == Lookup(prev_totals, r.proc)
                     IN /\ RatEq(r.rin, Rat(StatedDelta(c.bin, q.bin), UsedDt))
                        /\ RatEq(r.rout, Rat(StatedDelta(c.bout, q.bout), UsedDt))

\* a row of a process whose in-counter went down and whose out-counter grew
C1_Witness ==
    /\ pc = "rows_out"
    /\ \E i \in DOMAIN rows :
          /\ HasKey(prev_totals, rows[i].proc)
          /\ Lookup(curr_totals, rows[i].proc).bin < Lookup(prev_totals, rows[i].proc).bin
          /\ Lookup(curr_totals, rows[i].proc).bout > Lookup(prev_totals, rows[i].proc).bout

\* C3: in both grouping modes every row belongs to a process whose in-delta
\* or out-delta of the tick is non-zero; a process with unchanged or only
\* decreased counters has no row.
C3_NoZeroRow ==
    pc = "rows_out" =>
        \A i \in DOMAIN rows :
            /\ HasKey(curr_totals, rows[i].proc)
            /\ HasKey(prev_totals, rows[i].proc)
            /\ LET c == Lookup(curr_totals, rows[i].proc)
                   q == Lookup(prev_totals, rows[i].proc)
               IN StatedDelta(c.bin, q.bin) # 0 \/ StatedDelta(c.bout, q.bout) # 0

\* remote mode: one process has rows, the other one, with one counter
\* unchanged and one decreased, has none
C3_Witness ==
    /\ pc = "rows_out"
    /\ group = "remote"
    /\ rows # <<>>
    /\ \E i \in DOMAIN curr_totals :
          /\ HasKey(prev_totals, curr_totals[i].proc)
          /\ curr_totals[i].bin = Lookup(prev_totals, curr_totals[i].proc).bin
          /\ curr_totals[i].bout < Lookup(prev_totals, curr_totals[i].proc).bout
          /\ \A k \in DOMAIN rows : rows[k].proc # curr_totals[i].proc

\* C4: every row has rsum = rin + rout and rdelta = |rin - rout|; in remote
\* mode every group row of a process carries the quadruple of the process's
\* rate entry.
C4_DerivedMetrics ==
    pc = "rows_out" =>
        \A i \in DOMAIN rows :
            LET r == rows[i]
                diff == RatSub(r.rin, r.rout)
                entry == RateOf(prev_totals, Lookup(curr_totals, r.proc), UsedDt)
            IN /\ RatEq(r.rsum, RatAdd(r.rin, r.rout))
               /\ RatEq(r.rdelta, IF RatNonNeg(diff) THEN diff ELSE RatSub(r.rout, r.rin))
               /\ group = "remote" =>
                     /\ r.rin = entry.rin /\ r.rout = entry.rout
                     /\ r.rsum = entry.rsum /\ r.rdelta = entry.rdelta

\* remote mode, two group rows, one with unequal rin and rout
C4_Witness ==
    /\ pc = "rows_out"
    /\ group = "remote"
    /\ Len(rows) >= 2
    /\ \E i \in DOMAIN rows :
          /\ ~RatEq(rows[i].rin, rows[i].rout)
          /\ rows[i].rout.num > 0

\* C2: in either loop, while the counters of a process never decrease, the
\* deltas the loop computed for it add up, in each direction, to its latest
\* observed counter minus its first observed one.
C2_DeltasReconcile ==
    (acct[1] /\ acct[2]) =>
        /\ acct[5][1] = acct[4][1] - acct[3][1]
        /\ acct[5][2] = acct[4][2] - acct[3][2]

\* C5: a sample whose command failed gives ({}, {}) and raises nothing: no
\* fetch makes the UI fall back or ends main; the tick of a failed command
\* has no totals and no rows and ends, still running, in the keystroke wait
\* or the sleep that precedes the next sample.
C5_FailedFetchIsEmptyTick ==
    /\ \A result \in CtlEnv.sources :
          ~Succeeded(result) =>
             parse_snapshot(result) = [raised |-> FALSE, totals |-> <<>>, conns |-> <<>>]
    /\ ~(event.kind = "ui_error" /\ event.why = "fetch")
    /\ event.kind # "raised"
    /\ (event.kind = "fetch" /\ ~event.ok) =>
          /\ pc \in {"ui_poll", "stream_sleep"}
          /\ exit_status = "running"
          /\ pc = "ui_poll" => ~ui_failed
          /\ curr_totals = <<>> /\ curr_conns = <<>> /\ rows = <<>>
          /\ prev_totals = <<>>

\* an interactive tick, later than the start, whose command failed
C5_Witness ==
    /\ pc = "ui_poll"
    /\ event.kind = "fetch"
    /\ ~event.ok
    /\ monotonic > 0
    /\ ~ui_failed

\* C6: an interrupt in interactive mode, during the fetch, in the keystroke
\* wait or in the interval prompt, ends the run as a normal exit.
C6_InterruptIsNormalExit ==
    (event.kind = "interrupt" /\ event.at \in {"ui_fetch", "ui_poll", "ui_prompt"}) =>
        /\ pc = "done"
        /\ exit_status = "ok"
        /\ ~ui_failed

\* C7: an empty, non-numeric or non-positive entry leaves the interval and
\* the anchor next_target as they were before the prompt.
C7_InvalidEntryIgnored ==
    [][(pc = "ui_entry" /\ pc' = "ui_fetch" /\ ~ValidEntry(s)) =>
          (interval' = interval /\ next_target' = next_target)]_vars

\* C8: the timeout of the keystroke wait never exceeds one sampling
\* interval, and the next tick boundary is never more than one interval
\* ahead of the clock.
C8_TimeoutWithinInterval ==
    pc = "ui_poll" =>
        /\ ms <= interval * UnitMs
        /\ next_target <= monotonic + interval

C10_RowsRanked ==
    pc \in {"ui_poll", "stream_sleep"} =>
        \A i \in 1..(Len(rows) - 1) :
            RatLE(SortField(sort_key, rows[i + 1]), SortField(sort_key, rows[i]))

\* a tick drawn under the key "in": two rows with unequal rin, which the
\* key "delta" would put the other way round
C10_Witness ==
    /\ pc = "ui_poll"
    /\ sort_key = "in"
    /\ Len(rows) >= 2
    /\ ~RatEq(rows[1].rin, rows[2].rin)
    /\ ~RatLE(rows[2].rdelta, rows[1].rdelta)

\* C11: the command built for any pass-through arguments has -n and -x, and
\* has "-L 1" unless one of the arguments is the option -l or -L itself; a
\* word that only holds "-l" is no such option.
C11_OneSampleCommand ==
    pc = "cmd_out" =>
        /\ HasWord(cmd, <<"-", "n">>)
        /\ HasWord(cmd, <<"-", "x">>)
        /\ (~HasWord(nettop_args, <<"-", "l">>) /\ ~HasWord(nettop_args, <<"-", "L">>)) =>
              \E i \in 1..(Len(cmd) - 1) : cmd[i] = <<"-", "L">> /\ cmd[i + 1] = <<"1">>

\* C12: in both loops a drawn row is emphasised exactly when the threshold
\* is positive and the row's displayed metric (rdelta under "delta", rsum
\* under "sum"), in bytes per second, is strictly greater than
\* threshold * 1024; with a threshold <= 0 no row is emphasised.
C12_EmphasisIffAboveThreshold ==
    pc \in {"ui_poll", "stream_sleep"} =>
        /\ Len(drawn) <= Len(rows)
        /\ \A i \in DOMAIN drawn :
              LET m == IF display_metric = "delta" THEN rows[i].rdelta ELSE rows[i].rsum
              IN drawn[i] <=>
                    /\ threshold[1] > 0
                    /\ m.num * 1000000 * threshold[2] > threshold[1] * 1024 * m.den
        /\ threshold[1] <= 0 => \A i \in DOMAIN drawn : ~drawn[i]

\* a row emphasised under "sum" whose rdelta is not above the threshold
C12_Witness ==
    /\ pc = "ui_poll"
    /\ display_metric = "sum"
    /\ drawn = <<TRUE>>
    /\ threshold[1] > 0
    /\ ~Exceeds(rows[1].rdelta, threshold)

\* C13: handling h, i, o, d or m assigns one field of the UI state (help
\* visibility, sort key, display metric) and leaves the others, the
\* interval, next_target, prev_totals and prev_time as they were; a key
\* that is no command changes none of these fields.
C13_KeyFrame ==
    [][(pc = "ui_poll" /\ event'.kind = "key" /\ event'.key # "t") =>
          /\ interval' = interval /\ next_target' = next_target
          /\ prev_totals' = prev_totals /\ prev_time' = prev_time
          /\ event'.key = "h" =>
                show_help' = ~show_help /\ UNCHANGED <<sort_key, display_metric>>
          /\ event'.key \in {"i", "o", "d"} =>
                /\ sort_key' = (CASE event'.key = "i" -> "in"
                                  [] event'.key = "o" -> "out"
                                  [] OTHER -> "delta")
                /\ UNCHANGED <<show_help, display_metric>>
          /\ event'.key = "m" =>
                display_metric' # display_metric /\ UNCHANGED <<show_help, sort_key>>
          /\ event'.key \notin {"h", "i", "o", "d", "m"} =>
                UNCHANGED <<show_help, sort_key, display_metric>>]_vars

\* the loop about to sample again after the key i changed the sort key, the
\* schedule being what the tick left
C13_Witness ==
    /\ pc = "ui_fetch"
    /\ event.kind = "key"
    /\ event.key = "i"
    /\ sort_key = "in"
    /\ next_target > monotonic
    /\ prev_totals # <<>>

\* C14: at every tick of the interactive loop, whatever the lag, the timeout
\* handed to the keystroke wait is strictly positive.
C14_TimeoutPositive ==
    pc = "ui_poll" => (ms > 0 /\ remaining >= 0)

\* a tick that ends later than its boundary: the wait gets the floor
C14_Witness ==
    /\ pc = "ui_poll"
    /\ monotonic > next_target
    /\ remaining = 0
    /\ ms = UnitMs

\* C15: a process in the current totals but not in the previous ones has
\* zero deltas in both directions and no row, whatever its counters; with
\* empty previous totals (the tick after an empty warm-up) there is no row.
C15_NewProcessNoRow ==
    pc = "rows_out" =>
        /\ \A i \in DOMAIN curr_totals :
              ~HasKey(prev_totals, curr_totals[i].proc) =>
                 /\ RateOf(prev_totals, curr_totals[i], UsedDt).din = 0
                 /\ RateOf(prev_totals, curr_totals[i], UsedDt).dout = 0
                 /\ \A k \in DOMAIN rows : rows[k].proc # curr_totals[i].proc
        /\ prev_totals = <<>> => rows = <<>>

\* a new process with counters above 0 beside a known process that has rows
C15_Witness ==
    /\ pc = "rows_out"
    /\ rows # <<>>
    /\ \E i \in DOMAIN curr_totals :
          /\ ~HasKey(prev_totals, curr_totals[i].proc)
          /\ curr_totals[i].bin > 0
          /\ curr_totals[i].bout > 0

\* the text parse_snapshot was given: its header and its rows
GivenHeader == event.result[2][1]

GivenBody == Tail(event.result[2])

\* the classification rule as the spec words it
IsConnRow(r) ==
    Len(r) > 1 /\ CellKind(r[2]) = "conn" /\ (r[2][2] \/ r[2][3])

\* the name in the identifying cell of a row that is no connection row
NameOfRow(r) == IF Len(r) > 1 /\ CellKind(r[2]) = "txt" THEN r[2][2] ELSE ""

\* the process a connection row j belongs to: the name of the nearest
\* preceding row that is no connection row (named: and has a name); "" if
\* there is none
OwnerOf(body, j, named) ==
    LET ks == {k \in 1..(j - 1) :
                  ~IsConnRow(body[k]) /\ (named => NameOfRow(body[k]) # "")}
    IN IF ks = {} THEN ""
       ELSE NameOfRow(body[CHOOSE k \in ks : \A l \in ks : l <= k])

\* the local endpoints of the connection rows of a process, in source order
LocalsOwned(body, proc, named) ==
    LET idx == SelectSeq([j \in DOMAIN body |-> j],
                         LAMBDA j : IsConnRow(body[j]) /\ OwnerOf(body, j, named) = proc)
    IN [k \in DOMAIN idx |-> body[idx[k]][2][4]]

\* ProcConns is the table of the connection rows by owner, and ProcTotals and
\* ProcConns have the same processes: those that have a named row
Ownership(named) ==
    pc = "parse_out" =>
        /\ exit_status = "running"
        /\ Keys(curr_totals) = Keys(curr_conns)
        /\ Keys(curr_totals) =
              {NameOfRow(GivenBody[k]) : k \in DOMAIN GivenBody} \ {""}
        /\ \A i \in DOMAIN curr_conns :
              [k \in DOMAIN curr_conns[i].conns |-> curr_conns[i].conns[k].local]
                 = LocalsOwned(GivenBody, curr_conns[i].proc, named)

\* C16 as stated: every row that is no connection row starts a new process
\* context; a connection row goes, in source order, to the process started
\* by the nearest preceding row that is no connection row, and is dropped
\* when there is none; every process of ProcTotals has a list in ProcConns.
C16_AsStated == Ownership(FALSE)

\* C16 amended: only a row with a non-empty identifying cell starts a
\* context; a row without a name (an empty line, an empty cell) is skipped
\* and the context stays, so a connection row goes to the process of the
\* nearest preceding named row.
C16_ConnOwnership == Ownership(TRUE)

\* a connection row that follows a row without a name and is kept by the
\* process named before that row
C16_Witness ==
    /\ pc = "parse_out"
    /\ \E j \in DOMAIN GivenBody :
          /\ IsConnRow(GivenBody[j])
          /\ OwnerOf(GivenBody, j, FALSE) = ""
          /\ OwnerOf(GivenBody, j, TRUE) # ""
          /\ Lookup(curr_conns, OwnerOf(GivenBody, j, TRUE)).conns # <<>>

\* the last row of a process in the text
LastRowOf(body, proc) ==
    body[CHOOSE k \in DOMAIN body :
            /\ ~IsConnRow(body[k]) /\ NameOfRow(body[k]) = proc
            /\ \A l \in DOMAIN body :
                  (~IsConnRow(body[l]) /\ NameOfRow(body[l]) = proc) => l <= k]

\* the cell of a row under a column name: "none" without the column or the cell
CellUnder(header, r, name) ==
    IF ColOf(header, name) >= 0 /\ ColOf(header, name) < Len(r)
    THEN r[ColOf(header, name) + 1]
    ELSE <<"none">>

\* C17: a process row with an unparsable cell in one byte column keeps the
\* parsable value of the other byte column; only the unparsable field is 0.
C17_OtherFieldKept ==
    pc = "parse_out" =>
        \A i \in DOMAIN curr_totals :
            LET r == LastRowOf(GivenBody, curr_totals[i].proc)
                cin == CellUnder(GivenHeader, r, "bytes_in")
                cout == CellUnder(GivenHeader, r, "bytes_out")
            IN /\ (cin[1] = "txt" /\ cin # Txt("") /\ cout[1] = "num") =>
                     (curr_totals[i].bin = 0 /\ curr_totals[i].bout = cout[2])
               /\ (cout[1] = "txt" /\ cout # Txt("") /\ cin[1] = "num") =>
                     (curr_totals[i].bout = 0 /\ curr_totals[i].bin = cin[2])

\* C18: without a bytes_out column parse_snapshot raises nothing, every
\* process has bytes_out = 0 and the bytes_in its row gives, and every row
\* built from the result has rout = 0, so rsum = rdelta = rin.
C18_NoOutColumn ==
    (pc = "parse_out" /\ GivenHeader = HeaderNoOut) =>
        /\ exit_status = "running"
        /\ \A i \in DOMAIN curr_totals :
              LET cin == CellUnder(GivenHeader,
                                   LastRowOf(GivenBody, curr_totals[i].proc), "bytes_in")
              IN /\ curr_totals[i].bout = 0
                 /\ curr_totals[i].bin = IF cin[1] = "num" THEN cin[2] ELSE 0
        /\ \A k \in DOMAIN rows :
              /\ rows[k].rout.num = 0
              /\ RatEq(rows[k].rsum, rows[k].rin)
              /\ RatEq(rows[k].rdelta, rows[k].rin)

\* a text without the column whose process p received a byte and has a row
C18_Witness ==
    /\ pc = "parse_out"
    /\ GivenHeader = HeaderNoOut
    /\ HasKey(curr_totals, "p")
    /\ Lookup(curr_totals, "p").bin = 1
    /\ rows # <<>>
    /\ rows[1].rin.num > 0

\* the rows of a process
RowsOf(proc) == SelectSeq(rows, LAMBDA r : r.proc = proc)

\* C19: in remote mode a process with a rate entry has exactly one row per
\* distinct (process, iface, state, remote) among its connections; the
\* row's locals are the local endpoints of the connections of that key, in
\* first-seen order, duplicates kept; the lengths of the locals of its rows
\* add up to the number of its connections.
C19_OneRowPerKey ==
    (pc = "rows_out" /\ group = "remote") =>
        \A i \in DOMAIN curr_conns :
            LET proc == curr_conns[i].proc
                cs == curr_conns[i].conns
                proc_rate == ProcRate(prev_totals, curr_totals, DtFloor(dt_seconds))
                mine == RowsOf(proc)
                keyOf(c) == <<proc, c.iface, c.state, c.remote>>
                keys == {keyOf(cs[k]) : k \in DOMAIN cs}
            IN (\E n \in DOMAIN proc_rate : proc_rate[n].proc = proc) =>
                  /\ Len(mine) = Cardinality(keys)
                  /\ \A key \in keys :
                        LET own == SelectSeq(cs, LAMBDA c : keyOf(c) = key)
                            hit == {k \in DOMAIN mine :
                                      <<mine[k].proc, mine[k].iface, mine[k].state,
                                        mine[k].remote>> = key}
                        IN /\ Cardinality(hit) = 1
                           /\ \A k \in hit :
                                 mine[k].locals = [n \in DOMAIN own |-> own[n].local]
                  /\ Cardinality({kn \in (DOMAIN mine) \X (1..Len(cs) + 1) :
                                    kn[2] <= Len(mine[kn[1]].locals)})
                        = Len(cs)

\* three connections of p: the first and the third share a key, the second
\* has another; two rows, one of them with both local endpoints
C19_Witness ==
    /\ pc = "rows_out"
    /\ group = "remote"
    /\ Len(RowsOf("p")) = 2
    /\ \E k \in DOMAIN rows : rows[k].proc = "p" /\ rows[k].locals = <<"a:1", "a:2">>
    /\ Len(curr_conns[1].conns) = 3
    /\ curr_conns[1].conns[1].remote = curr_conns[1].conns[3].remote
    /\ curr_conns[1].conns[2].remote # curr_conns[1].conns[1].remote

\* C20: for a non-empty connection list the primary interface comes from the
\* externals if there are any, else from the real interfaces, else it is the
\* placeholder; in that pool it has the highest score and, among equal
\* scores, the greatest name.  A loopback is primary only without externals,
\* the placeholder only without real interfaces.
C20_PrimaryIface ==
    (pc = "rows_out" /\ group = "process") =>
        \A k \in DOMAIN rows :
            LET cs == Lookup(curr_conns, rows[k].proc).conns
                uniq == {IF cs[n].iface = "" THEN "-" ELSE cs[n].iface : n \in DOMAIN cs}
                real == uniq \ {"-"}
                ext == real \ {"lo", "lo0"}
                pool == IF ext # {} THEN ext ELSE IF real # {} THEN real ELSE {"-"}
                prim == rows[k].iface.primary
            IN cs # <<>> =>
                  /\ prim \in pool
                  /\ \A j \in pool :
                        \/ score(j) < score(prim)
                        \/ score(j) = score(prim) /\ NameRank(j) <= NameRank(prim)
                  /\ prim \in {"lo", "lo0"} => ext = {}
                  /\ prim = "-" => real = {}

\* en1 primary over en0 (equal score, greater name) and over utun0 (greater
\* name, lower score), en0 listed first
C20_Witness ==
    /\ pc = "rows_out"
    /\ group = "process"
    /\ \E k \in DOMAIN rows :
          /\ rows[k].proc = "p"
          /\ rows[k].iface.primary = "en1"
          /\ Len(curr_conns[1].conns) = 3
          /\ curr_conns[1].conns[1].iface = "en0"
          /\ \E n \in 2..3 : curr_conns[1].conns[n].iface = "utun0"

\* C21: in remote mode a process with an empty connection list has no row,
\* rate entry or not, and every process with a row in remote mode has a row
\* in process mode for the same totals, connections and dt.
C21_RemoteWithinProcess ==
    (pc = "rows_out" /\ group = "remote") =>
        LET inProcess == build_rows("process", prev_totals, curr_totals, curr_conns,
                                    dt_seconds)
            shownRemote == {rows[k].proc : k \in DOMAIN rows}
            shownProcess == {inProcess[k].proc : k \in DOMAIN inProcess}
        IN /\ \A i \in DOMAIN curr_conns :
                 curr_conns[i].conns = <<>> => curr_conns[i].proc \notin shownRemote
           /\ shownRemote \subseteq shownProcess

\* the strict case: p has traffic and no connection, q traffic and a
\* connection; remote mode shows q alone, process mode both
C21_Witness ==
    /\ pc = "rows_out"
    /\ group = "remote"
    /\ curr_conns[1].proc = "p"
    /\ curr_conns[1].conns = <<>>
    /\ {rows[k].proc : k \in DOMAIN rows} = {"q"}
    /\ LET inProcess == build_rows("process", prev_totals, curr_totals, curr_conns,
                                   dt_seconds)
       IN {inProcess[k].proc : k \in DOMAIN inProcess} = {"p", "q"}

====
